---- MODULE Spec2Model ----
(***************************************************************************)
(* One-shot channel of src/src/lib.rs: a Channel (slot + ready flag), split *)
(* into a Sender and a Receiver; recv parks the receiving thread until the  *)
(* flag is set, send writes, publishes and unparks.                         *)
(* Each action is one shared-memory step of the code.  The variables below  *)
(* "history" are history variables: they record what happened and are never *)
(* read by a guard or by an assignment to the program's state.              *)
(***************************************************************************)
EXTENDS Integers, FiniteSets, Sequences, TLC

\* ---- bounds ----
NumThreads == 2
MaxSplits == 2
MaxVal == 2
MaxParks == 2

Threads == 1..NumThreads
Ids == 1..MaxSplits
Values == 1..MaxVal

\* a message is an object: its identity (the split it was sent in) and payload
Objects == [id : Ids, val : Values]
\* values that are no object (id 0): the uninitialized slot, the outcome of
\* reading bytes that are no object, and "no message" in history variables
Uninit == [id |-> 0, val |-> 0]
Garbage == [id |-> 0, val |-> 1]
NoMsg == [id |-> 0, val |-> 2]

VARIABLES
  alive,      \* the Channel value exists (not yet destroyed)
  ready,      \* Channel.ready
  message,    \* Channel.message: Uninit or the bytes of an object
  epoch,      \* number of split() calls so far
  spc,        \* Sender: "none" | "held" | "write" | "store" | "unpark"
  sthread,    \* thread that holds the Sender
  waiting,    \* Sender.waiting
  smsg,       \* argument msg of the running send
  rpc,        \* Receiver: "none" | "held" | "swap" | "park" | "read"
  rthread,    \* thread that holds the Receiver
  token,      \* per thread park token
  \* history
  splitter,   \* thread that called the last split()
  sent,       \* msg passed to send() of the current split, or NoMsg
  result,     \* value returned by recv() of the current split, or NoMsg
  swapSaw,    \* what the last swap of the current recv() returned
  recvFirst,  \* recv() was already running when send() was called
  isReadyRet, \* <<b>>: the last is_ready() of the current split returned b
  parks,      \* number of thread::park() calls of the current recv()
  checks,     \* number of readiness checks (swaps) of the current recv()
  wrote,      \* per object id: number of writes into the slot
  took,       \* per object id: number of times recv moved it out
  drops,      \* per object id: number of times the Channel destructed it
  unparked    \* set of threads send() has unparked in the current split

vars == <<alive, ready, message, epoch, spc, sthread, waiting, smsg, rpc,
          rthread, token, splitter, sent, result, swapSaw, recvFirst,
          isReadyRet, parks, checks, wrote, took, drops, unparked>>

Bump(f, i) == [f EXCEPT ![i] = @ + 1]

\* ---- std primitives ----

\* bug: the handle of another thread is captured
CurrentThreadOther(t) == (t % NumThreads) + 1

\* thread::current()
CurrentThread(t) == t

\* MaybeUninit::assume_init_read: a bitwise copy of the slot; on an
\* uninitialized slot the result is undefined
AssumeInitRead(m) == IF m = Uninit THEN Objects \cup {Garbage} ELSE {m}

\* MaybeUninit::assume_init_drop: runs the destructor of the slot's content;
\* on an uninitialized slot the effect is undefined
AssumeInitDrop(m, d) ==
  IF m = Uninit THEN {d} \cup {Bump(d, i) : i \in Ids} ELSE {Bump(d, m.id)}

\* bug: the destructor does not test the flag
ChannelDropAlways(rdy, m, d) == AssumeInitDrop(m, d)

\* bug: the destructor never looks at the slot (a written value leaks)
ChannelDropLeak(rdy, m, d) == {d}

\* Drop for Channel: the possible drop counts after the destructor
ChannelDrop(rdy, m, d) == IF rdy THEN AssumeInitDrop(m, d) ELSE {d}

\* Channel::new
ChannelNew == [message |-> Uninit, ready |-> FALSE]

\* bug: the Receiver has no PhantomData marker and can change thread
SendableAll(h) == TRUE

\* auto traits: Sender is Send, Receiver holds PhantomData<*const ()>
Sendable(h) == h = "sender"

\* the thread is inside send() or recv()
Busy(t) ==
  \/ rpc \in {"swap", "park", "read"} /\ rthread = t
  \/ spc \in {"write", "store", "unpark"} /\ sthread = t

Init ==
  /\ alive = TRUE
  /\ ready = ChannelNew.ready
  /\ message = ChannelNew.message
  /\ epoch = 0
  /\ spc = "none"
  /\ sthread = 1
  /\ waiting = 1
  /\ smsg = NoMsg
  /\ rpc = "none"
  /\ rthread = 1
  /\ token \in [Threads -> BOOLEAN]
  /\ splitter = 1
  /\ sent = NoMsg
  /\ result = NoMsg
  /\ swapSaw = FALSE
  /\ recvFirst = FALSE
  /\ isReadyRet = <<>>
  /\ parks = 0
  /\ checks = 0
  /\ wrote = [i \in Ids |-> 0]
  /\ took = [i \in Ids |-> 0]
  /\ drops = [i \in Ids |-> 0]
  /\ unparked = {}

\* ---- Channel ----

\* bug: split overwrites the Channel without running its destructor
SplitForgetOld(t) ==
  /\ alive /\ spc = "none" /\ rpc = "none"
  /\ epoch < MaxSplits
  /\ ready' = ChannelNew.ready
  /\ message' = ChannelNew.message
  /\ epoch' = epoch + 1
  /\ spc' = "held" /\ sthread' = t /\ waiting' = CurrentThread(t)
  /\ rpc' = "held" /\ rthread' = t
  /\ splitter' = t
  /\ sent' = NoMsg /\ result' = NoMsg /\ swapSaw' = FALSE
  /\ recvFirst' = FALSE /\ isReadyRet' = <<>> /\ parks' = 0 /\ checks' = 0
  /\ unparked' = {}
  /\ UNCHANGED <<alive, smsg, token, wrote, took, drops>>

\* bug: split hands out the handles without *self = Self::new()
SplitNoReset(t) ==
  /\ alive /\ spc = "none" /\ rpc = "none"
  /\ epoch < MaxSplits
  /\ epoch' = epoch + 1
  /\ spc' = "held" /\ sthread' = t /\ waiting' = CurrentThread(t)
  /\ rpc' = "held" /\ rthread' = t
  /\ splitter' = t
  /\ sent' = NoMsg /\ result' = NoMsg /\ swapSaw' = FALSE
  /\ recvFirst' = FALSE /\ isReadyRet' = <<>> /\ parks' = 0 /\ checks' = 0
  /\ unparked' = {}
  /\ UNCHANGED <<alive, ready, message, smsg, token, wrote, took, drops>>

\* Channel::split called by thread t; needs &mut: no handle is alive
Split(t) ==
  /\ alive /\ spc = "none" /\ rpc = "none"
  /\ epoch < MaxSplits
  /\ drops' \in ChannelDrop(ready, message, drops)
  /\ ready' = ChannelNew.ready
  /\ message' = ChannelNew.message
  /\ epoch' = epoch + 1
  /\ spc' = "held" /\ sthread' = t /\ waiting' = CurrentThread(t)
  /\ rpc' = "held" /\ rthread' = t
  /\ splitter' = t
  /\ sent' = NoMsg /\ result' = NoMsg /\ swapSaw' = FALSE
  /\ recvFirst' = FALSE /\ isReadyRet' = <<>> /\ parks' = 0 /\ checks' = 0
  /\ unparked' = {}
  /\ UNCHANGED <<alive, smsg, token, wrote, took>>

\* the Channel goes out of scope: Drop for Channel
DropChannel ==
  /\ alive /\ spc = "none" /\ rpc = "none"
  /\ drops' \in ChannelDrop(ready, message, drops)
  /\ alive' = FALSE
  /\ UNCHANGED <<ready, message, epoch, spc, sthread, waiting, smsg, rpc,
                 rthread, token, splitter, sent, result, swapSaw, recvFirst,
                 isReadyRet, parks, checks, wrote, took, unparked>>

\* ---- handles ----

\* a handle is moved to thread t
Move(h, t) ==
  /\ Sendable(h)
  /\ \/ /\ h = "sender" /\ spc = "held" /\ t # sthread /\ ~Busy(sthread)
        /\ sthread' = t /\ UNCHANGED rthread
     \/ /\ h = "receiver" /\ rpc = "held" /\ t # rthread /\ ~Busy(rthread)
        /\ rthread' = t /\ UNCHANGED sthread
  /\ UNCHANGED <<alive, ready, message, epoch, spc, waiting, smsg, rpc,
                 token, splitter, sent, result, swapSaw, recvFirst,
                 isReadyRet, parks, checks, wrote, took, drops, unparked>>

\* the Sender is dropped without send()
DropSender ==
  /\ spc = "held" /\ ~Busy(sthread)
  /\ spc' = "none"
  /\ UNCHANGED <<alive, ready, message, epoch, sthread, waiting, smsg, rpc,
                 rthread, token, splitter, sent, result, swapSaw, recvFirst,
                 isReadyRet, parks, checks, wrote, took, drops, unparked>>

\* the Receiver is dropped without recv()
DropReceiver ==
  /\ rpc = "held" /\ ~Busy(rthread)
  /\ rpc' = "none"
  /\ UNCHANGED <<alive, ready, message, epoch, spc, sthread, waiting, smsg,
                 rthread, token, splitter, sent, result, swapSaw, recvFirst,
                 isReadyRet, parks, checks, wrote, took, drops, unparked>>

\* ---- Sender::send ----

\* send(self, msg) is called with payload v: the Sender is consumed
SendCall(v) ==
  /\ spc = "held" /\ ~Busy(sthread)
  /\ spc' = "write"
  /\ smsg' = [id |-> epoch, val |-> v]
  /\ sent' = [id |-> epoch, val |-> v]
  /\ recvFirst' = (rpc \in {"swap", "park"})
  /\ UNCHANGED <<alive, ready, message, epoch, sthread, waiting, rpc, rthread,
                 token, splitter, result, swapSaw, isReadyRet, parks, checks, wrote,
                 took, drops, unparked>>

\* bug: the flag is set where the slot should be written
SendPublishNoWrite ==
  /\ spc = "write"
  /\ ready' = TRUE
  /\ spc' = "store"
  /\ UNCHANGED <<alive, message, epoch, sthread, waiting, smsg, rpc, rthread,
                 token, splitter, sent, result, swapSaw, recvFirst,
                 isReadyRet, parks, checks, wrote, took, drops, unparked>>

\* (*self.inner.message.get()).write(msg)
SendWrite ==
  /\ spc = "write"
  /\ message' = smsg
  /\ wrote' = Bump(wrote, smsg.id)
  /\ spc' = "store"
  /\ UNCHANGED <<alive, ready, epoch, sthread, waiting, smsg, rpc, rthread,
                 token, splitter, sent, result, swapSaw, recvFirst,
                 isReadyRet, parks, checks, took, drops, unparked>>

\* bug: the thread is unparked where the flag should be stored
SendStoreUnparkFirst ==
  /\ spc = "store"
  /\ token' = [token EXCEPT ![waiting] = TRUE]
  /\ unparked' = unparked \cup {waiting}
  /\ spc' = "unpark"
  /\ UNCHANGED <<alive, ready, message, epoch, sthread, waiting, smsg, rpc,
                 rthread, splitter, sent, result, swapSaw, recvFirst,
                 isReadyRet, parks, checks, wrote, took, drops>>

\* bug: the flag is never stored
SendStoreSkipped ==
  /\ spc = "store"
  /\ spc' = "unpark"
  /\ UNCHANGED <<alive, ready, message, epoch, sthread, waiting, smsg, rpc,
                 rthread, token, splitter, sent, result, swapSaw, recvFirst,
                 isReadyRet, parks, checks, wrote, took, drops, unparked>>

\* self.inner.ready.store(true, Release)
SendStore ==
  /\ spc = "store"
  /\ ready' = TRUE
  /\ spc' = "unpark"
  /\ UNCHANGED <<alive, message, epoch, sthread, waiting, smsg, rpc, rthread,
                 token, splitter, sent, result, swapSaw, recvFirst,
                 isReadyRet, parks, checks, wrote, took, drops, unparked>>

\* bug: send returns without unpark()
SendNoUnpark ==
  /\ spc = "unpark"
  /\ spc' = "none"
  /\ UNCHANGED <<alive, ready, message, epoch, sthread, waiting, smsg, rpc,
                 rthread, token, splitter, sent, result, swapSaw, recvFirst,
                 isReadyRet, parks, checks, wrote, took, drops, unparked>>

\* bug: send takes &self, the Sender survives the call
SendKeepsSender ==
  /\ spc = "unpark"
  /\ token' = [token EXCEPT ![waiting] = TRUE]
  /\ unparked' = unparked \cup {waiting}
  /\ spc' = "held"
  /\ UNCHANGED <<alive, ready, message, epoch, sthread, waiting, smsg, rpc,
                 rthread, splitter, sent, result, swapSaw, recvFirst,
                 isReadyRet, parks, checks, wrote, took, drops>>

\* self.waiting.unpark(); send returns
SendUnpark ==
  /\ spc = "unpark"
  /\ token' = [token EXCEPT ![waiting] = TRUE]
  /\ unparked' = unparked \cup {waiting}
  /\ spc' = "none"
  /\ UNCHANGED <<alive, ready, message, epoch, sthread, waiting, smsg, rpc,
                 rthread, splitter, sent, result, swapSaw, recvFirst,
                 isReadyRet, parks, checks, wrote, took, drops>>

\* ---- Receiver ----

\* bug: is_ready swaps the flag instead of loading it
IsReadySwap ==
  /\ rpc = "held" /\ ~Busy(rthread)
  /\ isReadyRet' = <<ready>>
  /\ ready' = FALSE
  /\ UNCHANGED <<alive, message, epoch, spc, sthread, waiting, smsg, rpc,
                 rthread, token, splitter, sent, result, swapSaw, recvFirst,
                 parks, checks, wrote, took, drops, unparked>>

\* is_ready(&self): ready.load(Relaxed)
IsReady ==
  /\ rpc = "held" /\ ~Busy(rthread)
  /\ isReadyRet' = <<ready>>
  /\ UNCHANGED <<alive, ready, message, epoch, spc, sthread, waiting, smsg,
                 rpc, rthread, token, splitter, sent, result, swapSaw,
                 recvFirst, parks, checks, wrote, took, drops, unparked>>

\* bug: recv parks before its first check of the flag
RecvCallParksFirst ==
  /\ rpc = "held" /\ ~Busy(rthread)
  /\ rpc' = "park"
  /\ parks' = parks + 1
  /\ UNCHANGED <<alive, ready, message, epoch, spc, sthread, waiting, smsg,
                 rthread, token, splitter, sent, result, swapSaw, recvFirst,
                 isReadyRet, checks, wrote, took, drops, unparked>>

\* recv(self) is called: the Receiver is consumed
RecvCall ==
  /\ rpc = "held" /\ ~Busy(rthread)
  /\ rpc' = "swap"
  /\ UNCHANGED <<alive, ready, message, epoch, spc, sthread, waiting, smsg,
                 rthread, token, splitter, sent, result, swapSaw, recvFirst,
                 isReadyRet, parks, checks, wrote, took, drops, unparked>>

\* bug: a failed check is retried at once, without park
RecvSpin ==
  /\ rpc = "swap"
  /\ swapSaw' = ready
  /\ ready' = FALSE
  /\ rpc' = IF ready THEN "read" ELSE "swap"
  /\ checks' = checks + 1
  /\ UNCHANGED <<alive, message, epoch, spc, sthread, waiting, smsg, rthread,
                 token, splitter, sent, result, recvFirst, isReadyRet, parks,
                 wrote, took, drops, unparked>>

\* bug: the flag is loaded, not swapped: recv leaves it set
RecvLoadOnly ==
  /\ rpc = "swap"
  /\ swapSaw' = ready
  /\ rpc' = IF ready THEN "read" ELSE "park"
  /\ parks' = IF ready THEN parks ELSE parks + 1
  /\ checks' = checks + 1
  /\ UNCHANGED <<alive, ready, message, epoch, spc, sthread, waiting, smsg,
                 rthread, token, splitter, sent, result, recvFirst,
                 isReadyRet, wrote, took, drops, unparked>>

\* bug: the flag is swapped once and its value ignored
RecvSwapIgnored ==
  /\ rpc = "swap"
  /\ swapSaw' = ready
  /\ ready' = FALSE
  /\ rpc' = "read"
  /\ checks' = checks + 1
  /\ UNCHANGED <<alive, message, epoch, spc, sthread, waiting, smsg, rthread,
                 token, splitter, sent, result, recvFirst, isReadyRet, parks,
                 wrote, took, drops, unparked>>

\* while !ready.swap(false, Acquire)
RecvSwap ==
  /\ rpc = "swap"
  /\ swapSaw' = ready
  /\ ready' = FALSE
  /\ rpc' = IF ready THEN "read" ELSE "park"
  /\ parks' = IF ready THEN parks ELSE parks + 1
  /\ checks' = checks + 1
  /\ UNCHANGED <<alive, message, epoch, spc, sthread, waiting, smsg, rthread,
                 token, splitter, sent, result, recvFirst, isReadyRet, wrote,
                 took, drops, unparked>>

\* bug: a single park, the flag is not checked again after it
ParkWakeNoRecheck ==
  /\ rpc = "park"
  /\ token[rthread]
  /\ token' = [token EXCEPT ![rthread] = FALSE]
  /\ rpc' = "read"
  /\ UNCHANGED <<alive, ready, message, epoch, spc, sthread, waiting, smsg,
                 rthread, splitter, sent, result, swapSaw, recvFirst,
                 isReadyRet, parks, checks, wrote, took, drops, unparked>>

\* thread::park() returns by consuming the thread's token
ParkWake ==
  /\ rpc = "park"
  /\ token[rthread]
  /\ token' = [token EXCEPT ![rthread] = FALSE]
  /\ rpc' = "swap"
  /\ UNCHANGED <<alive, ready, message, epoch, spc, sthread, waiting, smsg,
                 rthread, splitter, sent, result, swapSaw, recvFirst,
                 isReadyRet, parks, checks, wrote, took, drops, unparked>>

\* thread::park() returns spuriously (at most MaxParks parks of one recv do)
ParkSpurious ==
  /\ rpc = "park"
  /\ parks <= MaxParks
  /\ rpc' = "swap"
  /\ UNCHANGED <<alive, ready, message, epoch, spc, sthread, waiting, smsg,
                 rthread, token, splitter, sent, result, swapSaw, recvFirst,
                 isReadyRet, parks, checks, wrote, took, drops, unparked>>

\* (*self.inner.message.get()).assume_init_read(); recv returns
RecvRead ==
  /\ rpc = "read"
  /\ result' \in AssumeInitRead(message)
  /\ took' = IF result' \in Objects THEN Bump(took, result'.id) ELSE took
  /\ rpc' = "none"
  /\ UNCHANGED <<alive, ready, message, epoch, spc, sthread, waiting, smsg,
                 rthread, token, splitter, sent, swapSaw, recvFirst,
                 isReadyRet, parks, checks, wrote, drops, unparked>>

Next ==
  \/ \E t \in Threads : Split(t)
  \/ DropChannel
  \/ \E h \in {"sender", "receiver"}, t \in Threads : Move(h, t)
  \/ DropSender
  \/ DropReceiver
  \/ \E v \in Values : SendCall(v)
  \/ SendWrite
  \/ SendStore
  \/ SendUnpark
  \/ IsReady
  \/ RecvCall
  \/ RecvSwap
  \/ ParkWake
  \/ ParkSpurious
  \/ RecvRead

Spec == Init /\ [][Next]_vars

\* the steps of send and recv are taken by running threads; a spurious return
\* of park is never guaranteed
FairSpec ==
  /\ Init /\ [][Next]_vars
  /\ WF_vars(SendWrite) /\ WF_vars(SendStore) /\ WF_vars(SendUnpark)
  /\ WF_vars(RecvSwap) /\ WF_vars(ParkWake) /\ WF_vars(RecvRead)

TypeOK ==
  /\ alive \in BOOLEAN /\ ready \in BOOLEAN
  /\ message \in Objects \cup {Uninit}
  /\ epoch \in 0..MaxSplits
  /\ spc \in {"none", "held", "write", "store", "unpark"}
  /\ rpc \in {"none", "held", "swap", "park", "read"}
  /\ sthread \in Threads /\ rthread \in Threads /\ waiting \in Threads
  /\ token \in [Threads -> BOOLEAN]
  /\ result \in Objects \cup {NoMsg, Garbage}
  /\ sent \in Objects \cup {NoMsg}
\* ---- properties ----

\* send() of the current split has executed its store of the ready flag
Published == sent # NoMsg /\ spc \in {"unpark", "none"}
\* send() of the current split has returned
SendDone == sent # NoMsg /\ spc = "none"
\* recv() of the current split has passed its loop
RecvPassed == rpc = "read" \/ result # NoMsg

\* C1: whatever recv() returns is exactly the message passed to the send()
\* of the same split: an object of the current split, never one of an
\* earlier split and never the content of an unwritten slot.
C1_RoundTrip ==
  result # NoMsg => sent # NoMsg /\ result = sent /\ result.id = epoch

C1_Witness ==
  /\ result # NoMsg /\ result = sent /\ epoch = MaxSplits
  /\ wrote[1] = 1 /\ recvFirst /\ sthread # rthread

\* C2: recv() leaves its loop only when the paired send() has stored the
\* flag and recv's own swap has returned true, whatever park() did.
C2_NeverEarly == RecvPassed => Published /\ swapSaw

C2_Witness == result # NoMsg /\ parks >= 2 /\ swapSaw

\* C3: when recv() was running before send() was called, recv() eventually
\* returns the sent message (fair scheduling of the steps of send and recv).
C3_Liveness ==
  \A e \in Ids :
    (epoch = e /\ recvFirst /\ spc = "write")
      ~> (epoch = e /\ result # NoMsg /\ result = sent)

\* recv() was first and returned in the delay between store and unpark
C3_Witness ==
  /\ recvFirst /\ result # NoMsg /\ result = sent
  /\ spc = "unpark" /\ parks >= 1

\* C4: no state where send() has returned, the flag is still set and the
\* receiver is in park() without a token.
C4_NoLostWakeup ==
  ~(SendDone /\ ready /\ rpc = "park" /\ ~token[rthread])

\* send() has returned while the receiver is at park(): the token waits
C4_Witness == SendDone /\ ready /\ rpc = "park" /\ token[rthread]

\* C5: once the Channel is destroyed, every message that was written and
\* never received has been destructed exactly once.
C5_DropCleanup ==
  ~alive =>
    \A i \in Ids : (wrote[i] = 1 /\ took[i] = 0) => drops[i] = 1

\* the last split sent, nobody received, the Channel was destroyed
C5_Witness ==
  /\ ~alive /\ epoch >= 1 /\ wrote[epoch] = 1 /\ took[epoch] = 0
  /\ drops[epoch] = 1 /\ result = NoMsg

\* C6: at most one write into the slot per split, and a write only lands on
\* an uninitialized slot.
C6_OneWrite ==
  /\ [](\A i \in Ids : wrote[i] <= 1)
  /\ [][message' # message /\ message' # Uninit => message = Uninit]_vars

C6_Witness == epoch = MaxSplits /\ wrote[1] = 1 /\ wrote[epoch] = 1

\* C7: a message is moved out by at most one recv(), and a message that
\* recv() returned is never destructed by the Channel.
C7_ConsumedOnce ==
  \A i \in Ids : took[i] <= 1 /\ took[i] + drops[i] <= 1

\* received in the first split, then re-split and destroyed
C7_Witness ==
  ~alive /\ epoch = MaxSplits /\ took[1] = 1 /\ drops[1] = 0

\* C8: a split() step ends with the flag false and the slot uninitialized,
\* and recv() of the new split passes its loop only after the new send()
\* has written.
C8_SplitResets ==
  /\ [][epoch' # epoch => ~ready' /\ message' = Uninit]_vars
  /\ [](RecvPassed => epoch >= 1 /\ wrote[epoch] = 1 /\ Published)

\* re-split of a written, unread Channel; re-split of a consumed one
C8_Witness ==
  /\ epoch = MaxSplits /\ ~ready /\ message = Uninit /\ rpc = "held"
  /\ wrote[1] = 1 /\ took[1] = 0 /\ drops[1] = 1

\* state of the Channel: Written while the flag is set; Consumed once recv
\* of the current split has taken the flag; Empty otherwise
ChanState ==
  IF ready THEN "Written" ELSE IF RecvPassed THEN "Consumed" ELSE "Empty"

\* C9: the state of a live Channel changes only Empty -> Written by send's
\* store, Written -> Consumed by recv's swap, and to Empty by split();
\* destroying a Written Channel runs the destructor of the stored message.
C9_Transitions ==
  [][/\ alive' =>
          \/ epoch' = epoch + 1 /\ ChanState' = "Empty"
          \/ epoch' = epoch /\ ChanState' = ChanState
          \/ /\ epoch' = epoch
             /\ ChanState = "Empty" /\ ChanState' = "Written"
             /\ spc = "store" /\ spc' = "unpark"
          \/ /\ epoch' = epoch
             /\ ChanState = "Written" /\ ChanState' = "Consumed"
             /\ rpc = "swap" /\ rpc' = "read"
     /\ (alive /\ ~alive' /\ ChanState = "Written") =>
          message # Uninit /\ drops' = Bump(drops, message.id)
    ]_vars

\* a Channel consumed in its second split and destroyed consumed
C9_Witness ==
  ~alive /\ epoch = MaxSplits /\ ChanState = "Consumed" /\ wrote[1] = 1

\* C10: the handle stored in the Sender is the thread that called split(),
\* the Receiver stays on that thread, and send() unparks no other thread.
C10_Affinity ==
  epoch >= 1 =>
    /\ waiting = splitter
    /\ rthread = splitter
    /\ unparked \subseteq {rthread}

\* the Sender moved to another thread and unparked the receiving thread
C10_Witness ==
  /\ unparked = {rthread} /\ sthread # rthread /\ result # NoMsg
  /\ parks >= 1

\* C11: send writes the slot before it stores the flag, recv reads the slot
\* only after its swap returned true: the flag is never set over an
\* unwritten slot, recv never reads an uninitialized slot, and the write and
\* the read of the slot never overlap.
C11_Ordering ==
  /\ [](ready => message # Uninit /\ message = sent)
  /\ [](rpc = "read" =>
          swapSaw /\ message # Uninit /\ spc \in {"unpark", "none"})
  /\ [][spc = "store" /\ spc' = "unpark" =>
          message = smsg /\ wrote[epoch] = 1]_vars

\* recv is about to read while send has not yet returned
C11_Witness ==
  rpc = "read" /\ spc = "unpark" /\ message = sent /\ recvFirst

\* C12: unpark comes after the store of the flag: once the paired send has
\* unparked, a receiver still in its loop finds the flag set at its next
\* check, and the unpark step of send changes neither slot nor flag.
C12_WakeAfterPublish ==
  /\ [](unparked # {} => Published /\ (ready \/ RecvPassed))
  /\ [](unparked # {} /\ rpc \in {"swap", "park"} => ready)
  /\ [][spc = "unpark" /\ spc' # spc =>
          Published /\ ready' = ready /\ message' = message]_vars

\* the receiver was resumed with the token of the paired unpark and is at
\* its next check, the flag set
C12_Witness ==
  /\ unparked = {rthread} /\ rpc = "swap" /\ parks >= 1
  /\ ~token[rthread] /\ ready

\* C13: every check of the flag that fails is followed by a call of park()
\* before the next check: inside the loop the checks equal the parks, past
\* the loop there is exactly one check more.
C13_NoBusySpin ==
  /\ rpc \in {"swap", "park"} => checks = parks
  /\ RecvPassed => checks = parks + 1

\* recv returned after three checks and two parks
C13_Witness == result # NoMsg /\ checks >= 3 /\ parks = checks - 1

\* C14: destroying the Channel destructs the stored message if and only if
\* the flag is set: with the flag clear no destructor runs, with the flag
\* set the slot is initialized and its message is destructed.
C14_DropIffReady ==
  [][alive /\ ~alive' =>
       IF ready
         THEN message # Uninit /\ drops' = Bump(drops, message.id)
         ELSE drops' = drops]_vars

\* the first split's message was received, the second split's message was
\* written and never read, then the Channel was destroyed
C14_Witness ==
  /\ ~alive /\ ready /\ message # Uninit /\ drops[message.id] = 1
  /\ epoch = MaxSplits /\ took[1] = 1 /\ drops[1] = 0

\* C15: is_ready() returns the flag (set exactly between the store of the
\* paired send and recv) and changes nothing else; recv after is_ready still
\* returns the sent message.
C15_IsReadyPure ==
  /\ [][isReadyRet' # isReadyRet /\ epoch' = epoch =>
          /\ isReadyRet' = <<ready>>
          /\ UNCHANGED <<alive, ready, message, epoch, spc, sthread, waiting,
                         smsg, rpc, rthread, token, wrote, took, drops>>]_vars
  /\ [](rpc = "held" => (ready <=> Published))
  /\ [](isReadyRet # <<>> /\ result # NoMsg => result = sent)

\* is_ready() returned false, the send ran, and recv returned the message
C15_Witness ==
  /\ isReadyRet = <<FALSE>> /\ result # NoMsg /\ result = sent
  /\ recvFirst /\ parks >= 1

\* C16: a set flag means the slot holds a message that recv has not moved
\* out; and with no handle alive, a slot holding such a message means the
\* flag is set.
C16_FlagSlot ==
  /\ ready => message # Uninit /\ took[message.id] = 0
  /\ (alive /\ spc = "none" /\ rpc = "none"
        /\ message # Uninit /\ took[message.id] = 0) => ready

\* sent, Receiver dropped: the Channel can be re-split or destroyed and
\* holds an unread message
C16_Witness ==
  /\ alive /\ spc = "none" /\ rpc = "none" /\ ready
  /\ message = sent /\ took[message.id] = 0

\* C17: a split() of a Channel holding a sent, never received message
\* destructs that message, exactly once over all, and recv of the new split
\* returns a message of the new split only.
C17_ResplitDrops ==
  /\ [][epoch' # epoch /\ ready =>
          /\ message # Uninit /\ drops[message.id] = 0
          /\ drops' = Bump(drops, message.id)]_vars
  /\ [](\A i \in Ids : drops[i] <= 1)
  /\ [](result # NoMsg => result.id = epoch /\ drops[result.id] = 0)

\* the first message was destructed by the re-split, the second received
C17_Witness ==
  /\ epoch >= 2 /\ wrote[1] = 1 /\ took[1] = 0 /\ drops[1] = 1
  /\ result # NoMsg /\ result.id = epoch

\* C18: when the flag is already set at recv's first check (send ran before
\* on the same thread, or is_ready() returned true), recv returns without a
\* park; between splits only recv's swap clears the flag.
C18_FastPath ==
  /\ [][checks = 0 /\ checks' = 1 /\ ready =>
          rpc' = "read" /\ parks' = 0]_vars
  /\ [](isReadyRet = <<TRUE>> => parks = 0 /\ rpc # "park")
  /\ [](sthread = rthread /\ RecvPassed => parks = 0)
  /\ [](RecvPassed /\ checks = 1 => parks = 0)
  /\ [][ready /\ ~ready' /\ epoch' = epoch => rpc = "swap"]_vars

\* is_ready() returned true for a send of another thread, then recv
\* returned without a park
C18_Witness ==
  /\ isReadyRet = <<TRUE>> /\ result # NoMsg /\ result = sent
  /\ sthread # rthread /\ parks = 0 /\ checks = 1
====
